---- MODULE Spec2Model ----
(***************************************************************************)
(* A model of skogul's Metadata and Data transformers                      *)
(* (transformer/metadata.go), of the flatten primitive they share and of   *)
(* the NATS sender (sender/nats.go); and of main (cmd/skogul/main.go) with  *)
(* the file receivers it starts (LineFile, File, Stdin, WholeFile and      *)
(* LineFileAdvanced, in sender/nats.go).                                   *)
(*                                                                         *)
(* A value of Go's interface{} is a tagged record [t, v]; a               *)
(* map[string]interface{} is Obj(f) for a function f whose domain is the   *)
(* set of its keys, and the nil map is NilMap.  Maps are only ever written *)
(* at their top level by this code, so value semantics is faithful to the  *)
(* reference semantics of Go maps.                                         *)
(***************************************************************************)
EXTENDS Integers, Sequences, FiniteSets, TLC

VARIABLES
    meta,       \* the Metadata transformer instance, shared by all calls
    data,       \* the Data transformer instance, shared by all calls
    nats,       \* the Nats sender instance
    conf,       \* the configuration as loaded at startup (history)
    c,          \* c[p]: the container owned by handler invocation p
    pc,         \* pc[p]: where invocation p stands
    pre,        \* pre[p]: c[p] as it was when the last operation began
    ret,        \* ret[p]: what the last operation returned
    ops,        \* ops[p]: the operations p has completed, in order
    published,  \* published[p]: the payload p handed to nc.Publish
    receivers,  \* c.Receivers of main: the configured receivers, in order
    rcv,        \* rcv[r]: receiver r as it runs
    main,       \* main's position and its locals i and ii
    foo,        \* main's slice of channels
    gor,        \* gor[g]: the g-th goroutine main started
    exit        \* the exit status of the process, "running" while it runs

handlerVars == <<meta, data, nats, conf, c, pc, pre, ret, ops, published>>
mainVars == <<receivers, rcv, main, foo, gor, exit>>
vars == <<handlerVars, mainVars>>

\* Bounds of the model.
MaxMetrics == 2
MaxCalls == 2
NumProcs == 2
MaxReceivers == 2
MaxLines == 2

Procs == 1..NumProcs

(***************************************************************************)
(* Values                                                                  *)
(***************************************************************************)
Null == [t |-> "null", v |-> 0]
Num(n) == [t |-> "num", v |-> n]
Obj(f) == [t |-> "map", v |-> f]
Arr(s) == [t |-> "list", v |-> s]
NilMap == [t |-> "nilmap", v |-> 0]

EmptyFn == [x \in {} |-> Null]
\* make(map[string]interface{})
MakeMap == Obj(EmptyFn)

\* _, ok := m[k]
Has(m, k) == m.t = "map" /\ k \in DOMAIN m.v
\* m[k]: the nil interface when k is no key of m (or m is the nil map)
Get(m, k) == IF Has(m, k) THEN m.v[k] ELSE Null
\* m[k] = val, m not nil
Put(m, k, val) == Obj([x \in DOMAIN m.v \cup {k} |-> IF x = k THEN val ELSE m.v[x]])
\* delete(m, k): a no-op on the nil map
Delete(m, k) == IF m.t = "map" THEN Obj([x \in DOMAIN m.v \ {k} |-> m.v[x]]) ELSE m

NoError == ""

\* One key and two keys of a map under construction.
Map1(k, val) == Obj([x \in {k} |-> val])
Map2(k1, v1, k2, v2) == Obj([x \in {k1, k2} |-> IF x = k1 THEN v1 ELSE v2])

SourceDestination(s, d, keep) == [Source |-> s, Destination |-> d, Keep |-> keep]

(***************************************************************************)
(* Metadata.Transform, one rule group at a time for one metric             *)
(***************************************************************************)
\* for key, value := range meta.Set: keys are distinct, the order is immaterial
ApplySet(target, set) ==
    IF DOMAIN set = {} THEN target
    ELSE LET base == IF target = NilMap THEN MakeMap ELSE target
         IN Obj([x \in DOMAIN base.v \cup DOMAIN set |->
                    IF x \in DOMAIN set THEN set[x] ELSE base.v[x]])

\* RequireError with a test of presence in place of the test against nil
RequireErrorPresent(target, require, what) ==
    LET bad == {i \in DOMAIN require : ~Has(target, require[i])}
    IN IF bad = {} THEN NoError
       ELSE "missing required " \o what \o " field " \o
            require[CHOOSE i \in bad : \A j \in bad : i <= j]
\* The first required field that is missing or nil, as the error returned
\* (lines 66-70, 252-256).
RequireError(target, require, what) ==
    LET bad == {i \in DOMAIN require :
                    target = NilMap \/ Get(target, require[i]) = Null}
    IN IF bad = {} THEN NoError
       ELSE "missing required " \o what \o " field " \o
            require[CHOOSE i \in bad : \A j \in bad : i <= j]

\* The extract loop without its delete: the key copied and left in Data
RECURSIVE ApplyExtractKeep(_, _, _)
ApplyExtractKeep(metric, extract, i) ==
    IF i > Len(extract) THEN metric
    ELSE IF ~Has(metric.Data, extract[i]) THEN ApplyExtractKeep(metric, extract, i + 1)
    ELSE LET md == IF metric.Metadata = NilMap THEN MakeMap ELSE metric.Metadata
         IN ApplyExtractKeep([metric EXCEPT
                                 !.Metadata = Put(md, extract[i], Get(metric.Data, extract[i]))],
                             extract, i + 1)
\* for _, extract := range meta.ExtractFromData
RECURSIVE ApplyExtract(_, _, _)
ApplyExtract(metric, extract, i) ==
    IF i > Len(extract) THEN metric
    ELSE IF ~Has(metric.Data, extract[i]) THEN ApplyExtract(metric, extract, i + 1)
    ELSE LET md == IF metric.Metadata = NilMap THEN MakeMap ELSE metric.Metadata
         IN ApplyExtract([metric EXCEPT
                             !.Metadata = Put(md, extract[i], Get(metric.Data, extract[i])),
                             !.Data = Delete(metric.Data, extract[i])],
                         extract, i + 1)

\* The transformer after an iteration that assigned to cpy, were cpy a pointer
\* into meta.CopyFromData
RangeValuePtr(m, i, cpy) == [m EXCEPT !.CopyFromData[i] = cpy]
\* cpy is the range statement's copy of meta.CopyFromData[i]: an assignment to
\* cpy.Destination does not reach the transformer.
RangeValue(m, i, cpy) == m

\* cpy.Destination without the defaulting of lines 90-92
DestinationKeep(cpy) == cpy.Destination
\* cpy.Destination as used on line 93, after the defaulting of lines 90-92
DestinationOrSource(cpy) == IF cpy.Destination = "" THEN cpy.Source ELSE cpy.Destination

\* for _, cpy := range meta.CopyFromData; yields the metric and the transformer
RECURSIVE ApplyCopy(_, _, _)
ApplyCopy(m, metric, i) ==
    IF i > Len(m.CopyFromData) THEN [meta |-> m, metric |-> metric]
    ELSE LET rule == m.CopyFromData[i]
         IN IF ~Has(metric.Data, rule.Source) THEN ApplyCopy(m, metric, i + 1)
            ELSE LET md == IF metric.Metadata = NilMap THEN MakeMap ELSE metric.Metadata
                     cpy == [rule EXCEPT !.Destination = DestinationOrSource(rule)]
                     md2 == Put(md, cpy.Destination, Get(metric.Data, cpy.Source))
                     d2 == IF ~cpy.Keep THEN Delete(metric.Data, cpy.Source)
                           ELSE metric.Data
                 IN ApplyCopy(RangeValue(m, i, cpy),
                              [metric EXCEPT !.Metadata = md2, !.Data = d2], i + 1)

\* for _, value := range x.Remove
RECURSIVE ApplyRemove(_, _, _)
ApplyRemove(target, remove, i) ==
    IF i > Len(remove) THEN target
    ELSE IF target = NilMap THEN ApplyRemove(target, remove, i + 1)
    ELSE ApplyRemove(Delete(target, remove[i]), remove, i + 1)

\* The first banned field whose value is not nil, as the error returned (the
\* message without the quotation marks it puts around the field).
BanError(target, ban, what) ==
    LET bad == {i \in DOMAIN ban : target # NilMap /\ Get(target, ban[i]) # Null}
    IN IF bad = {} THEN NoError
       ELSE "banned " \o what \o " field " \o
            ban[CHOOSE i \in bad : \A j \in bad : i <= j] \o " present"

\* RenameOne without the test that the source is present
RenameNoCheck(target, rename) ==
    LET t2 == Put(IF target = NilMap THEN MakeMap ELSE target,
                  rename.Destination, Get(target, rename.Source))
    IN IF ~rename.Keep THEN Delete(t2, rename.Source) ELSE t2
\* RenameOne with an empty destination standing for the source, as in CopyFromData
RenameDefaulting(target, rename) ==
    IF target = NilMap THEN target
    ELSE IF ~Has(target, rename.Source) THEN target
    ELSE LET t2 == Put(target, DestinationOrSource(rename), Get(target, rename.Source))
         IN IF ~rename.Keep THEN Delete(t2, rename.Source) ELSE t2
\* The body of the rename loop for one rule (lines 114-126, 272-281); the
\* fmt.Printf calls of the Metadata transformer only write to standard output.
RenameOne(target, rename) ==
    IF target = NilMap THEN target
    ELSE IF ~Has(target, rename.Source) THEN target
    ELSE LET t2 == Put(target, rename.Destination, Get(target, rename.Source))
         IN IF ~rename.Keep THEN Delete(t2, rename.Source) ELSE t2

\* for _, rename := range x.Rename
RECURSIVE ApplyRename(_, _, _)
ApplyRename(target, rename, i) ==
    IF i > Len(rename) THEN target
    ELSE ApplyRename(RenameOne(target, rename[i]), rename, i + 1)

(***************************************************************************)
(* The flatten primitive                                                   *)
(***************************************************************************)
\* skogul.ExtractNestedObject: the map holding the last key of the path, found by
\* descending through all keys but the last; an error when a key on the way is
\* missing or holds no map.
RECURSIVE ExtractNestedObject(_, _)
ExtractNestedObject(object, keys) ==
    IF Len(keys) = 1 THEN [obj |-> object, err |-> NoError]
    ELSE LET next == Get(object, keys[1])
         IN IF next.t # "map" THEN [obj |-> NilMap, err |-> "failed cast"]
            ELSE ExtractNestedObject(next, Tail(keys))

\* nestedObjectPath of lines 145-152: the path's keys joined by the separator
RECURSIVE JoinPath(_, _, _, _)
JoinPath(acc, nestedPath, separator, i) ==
    IF i > Len(nestedPath) THEN acc
    ELSE JoinPath(acc \o separator \o nestedPath[i], nestedPath, separator, i + 1)

\* IndexKey counting the elements from one
IndexKeyOneBased(i, separator, key) == ToString(i + 1) \o separator \o key
\* The key an element's key gets in nestedObj (line 190); i is the element's
\* index in the Go slice.
IndexKey(i, separator, key) == ToString(i) \o separator \o key

\* for key, val := range obj: the keys are distinct, the order is immaterial
RECURSIVE ElementKeys(_, _, _, _, _)
ElementKeys(nestedObj, i, separator, obj, keys) ==
    IF keys = {} THEN nestedObj
    ELSE LET key == CHOOSE k \in keys : TRUE
         IN ElementKeys(Put(nestedObj, IndexKey(i, separator, key), obj[key]),
                        i, separator, obj, keys \ {key})

\* for i, val := range nestedObjArray; n is the TLA+ index, i = n - 1 the Go index
RECURSIVE ArrayToObj(_, _, _, _)
ArrayToObj(nestedObj, nestedObjArray, separator, n) ==
    IF n > Len(nestedObjArray) THEN nestedObj
    ELSE LET val == nestedObjArray[n]
         IN IF val.t = "map"
            THEN ArrayToObj(ElementKeys(nestedObj, n - 1, separator, val.v, DOMAIN val.v),
                            nestedObjArray, separator, n + 1)
            ELSE ArrayToObj(Put(nestedObj, ToString(n - 1), val),
                            nestedObjArray, separator, n + 1)

\* DeletedKey deleting the first key of the path instead
DeletedKeyFirst(nestedPath, nestedObjectPath) == nestedPath[1]
\* The key deleted after each write when KeepOriginal is false (lines 204, 211).
DeletedKey(nestedPath, nestedObjectPath) == nestedObjectPath

\* for key, val := range nestedObj (lines 198-214): each iteration writes one key
\* and, unless KeepOriginal, deletes nestedObjectPath.  The written keys are
\* distinct and a written key that equals the deleted one is deleted in its own
\* iteration, so the order of the iterations is immaterial.
RECURSIVE WriteKeys(_, _, _, _, _, _, _)
WriteKeys(target, nestedObj, keys, nestedObjectPath, separator, KeepOriginal, del) ==
    IF keys = {} THEN target
    ELSE LET key == CHOOSE k \in keys : TRUE
             t2 == Put(target, nestedObjectPath \o separator \o key, nestedObj[key])
             t3 == IF KeepOriginal THEN t2 ELSE Delete(t2, del)
         IN WriteKeys(t3, nestedObj, keys \ {key}, nestedObjectPath, separator,
                      KeepOriginal, del)

\* The prefix of the flattened keys and the separator in effect (lines 145-157).
FlattenPrefix(nestedPath, separator) ==
    IF separator = "drop" THEN ""
    ELSE IF Len(nestedPath) > 1 THEN JoinPath(nestedPath[1], nestedPath, separator, 2)
    ELSE nestedPath[1]
FlattenSep(separator) == IF separator = "drop" THEN "" ELSE separator

\* flattenStructure: the metric afterwards and the error returned
flattenStructure(nestedPath, separator, KeepOriginal, metric, isData) ==
    LET nestedObjectPath == FlattenPrefix(nestedPath, separator)
        sep == FlattenSep(separator)
        target == IF isData THEN metric.Data ELSE metric.Metadata
        ex == ExtractNestedObject(target, nestedPath)
        leaf == Get(ex.obj, nestedPath[Len(nestedPath)])
        nestedObj == IF leaf.t = "map" THEN leaf
                     ELSE ArrayToObj(MakeMap, leaf.v, sep, 1)
        t2 == WriteKeys(target, nestedObj.v, DOMAIN nestedObj.v, nestedObjectPath, sep,
                        KeepOriginal, DeletedKey(nestedPath, nestedObjectPath))
    IN IF ex.err # NoError THEN [metric |-> metric, err |-> ex.err]
       ELSE IF leaf.t \notin {"map", "list"}
       THEN [metric |-> metric, err |-> "failed to cast to array"]
       ELSE [metric |-> IF isData THEN [metric EXCEPT !.Data = t2]
                        ELSE [metric EXCEPT !.Metadata = t2],
             err |-> NoError]

\* for _, nestedPath := range x.Flatten { _ = flattenStructure(...) }: the error
\* is discarded
RECURSIVE ApplyFlatten(_, _, _, _, _, _)
ApplyFlatten(metric, flatten, separator, KeepOriginal, isData, i) ==
    IF i > Len(flatten) THEN metric
    ELSE ApplyFlatten(
            flattenStructure(flatten[i], separator, KeepOriginal, metric, isData).metric,
            flatten, separator, KeepOriginal, isData, i + 1)

(***************************************************************************)
(* Metadata.Transform and Data.Transform                                   *)
(***************************************************************************)
\* MetadataMetric returning the error of its first flatten instead of discarding it
MetadataMetricReports(m, metric) ==
    LET m1 == [metric EXCEPT !.Metadata = ApplySet(metric.Metadata, m.Set)]
        e1 == RequireError(m1.Metadata, m.Require, "metadata")
        m2 == ApplyExtract(m1, m.ExtractFromData, 1)
        r3 == ApplyCopy(m, m2, 1)
        m4 == [r3.metric EXCEPT !.Metadata = ApplyRemove(r3.metric.Metadata, m.Remove, 1)]
        e4 == BanError(m4.Metadata, m.Ban, "metadata")
        m5 == [m4 EXCEPT !.Metadata = ApplyRename(m4.Metadata, m.Rename, 1)]
        m6 == ApplyFlatten(m5, m.Flatten, m.FlattenSeparator, m.KeepOriginal, FALSE, 1)
        e6 == IF m.Flatten = <<>> THEN NoError
              ELSE flattenStructure(m.Flatten[1], m.FlattenSeparator, m.KeepOriginal,
                                    m5, FALSE).err
    IN IF e1 # NoError THEN [meta |-> m, metric |-> m1, err |-> e1]
       ELSE IF e4 # NoError THEN [meta |-> r3.meta, metric |-> m4, err |-> e4]
       ELSE [meta |-> r3.meta, metric |-> m6, err |-> e6]
\* The body of Metadata.Transform's loop for one metric (lines 60-131): the
\* transformer, the metric and the error returned, if any.
MetadataMetric(m, metric) ==
    LET m1 == [metric EXCEPT !.Metadata = ApplySet(metric.Metadata, m.Set)]
        e1 == RequireError(m1.Metadata, m.Require, "metadata")
        m2 == ApplyExtract(m1, m.ExtractFromData, 1)
        r3 == ApplyCopy(m, m2, 1)
        m4 == [r3.metric EXCEPT !.Metadata = ApplyRemove(r3.metric.Metadata, m.Remove, 1)]
        e4 == BanError(m4.Metadata, m.Ban, "metadata")
        m5 == [m4 EXCEPT !.Metadata = ApplyRename(m4.Metadata, m.Rename, 1)]
        m6 == ApplyFlatten(m5, m.Flatten, m.FlattenSeparator, m.KeepOriginal, FALSE, 1)
    IN IF e1 # NoError THEN [meta |-> m, metric |-> m1, err |-> e1]
       ELSE IF e4 # NoError THEN [meta |-> r3.meta, metric |-> m4, err |-> e4]
       ELSE [meta |-> r3.meta, metric |-> m6, err |-> NoError]

\* for mi := range c.Metrics, from index mi on: stops at the first error
RECURSIVE MetadataLoop(_, _, _)
MetadataLoop(m, cont, mi) ==
    IF mi > Len(cont) THEN [meta |-> m, c |-> cont, err |-> NoError]
    ELSE LET r == MetadataMetric(m, cont[mi])
             c2 == [cont EXCEPT ![mi] = r.metric]
         IN IF r.err # NoError THEN [meta |-> r.meta, c |-> c2, err |-> r.err]
            ELSE MetadataLoop(r.meta, c2, mi + 1)

\* func (meta *Metadata) Deprecated() error, which only reads the transformer
Deprecated(m) ==
    IF Len(m.ExtractFromData) > 0
    THEN "ExtractFromData is replaced by CopyFromData. ExtractFromData will be removed in future versions."
    ELSE NoError

\* Transform with Deprecated as a gate in front of the loop
MetadataTransformGated(m, cont) ==
    IF Deprecated(m) # NoError THEN [meta |-> m, c |-> cont, err |-> Deprecated(m)]
    ELSE MetadataLoop(m, cont, 1)
\* func (meta *Metadata) Transform(c *skogul.Container) error, which does not
\* call Deprecated
MetadataTransform(m, cont) == MetadataLoop(m, cont, 1)

\* DataMetric with Require ahead of Flatten, the order of the Metadata transformer
DataMetricRequireFirst(d, metric) ==
    LET m1 == [metric EXCEPT !.Data = ApplySet(metric.Data, d.Set)]
        e1 == RequireError(m1.Data, d.Require, "data")
        m2 == ApplyFlatten(m1, d.Flatten, d.FlattenSeparator, d.KeepOriginal, TRUE, 1)
        m3 == [m2 EXCEPT !.Data = ApplyRemove(m2.Data, d.Remove, 1)]
        e3 == BanError(m3.Data, d.Ban, "data")
        m4 == [m3 EXCEPT !.Data = ApplyRename(m3.Data, d.Rename, 1)]
    IN IF e1 # NoError THEN [metric |-> m1, err |-> e1]
       ELSE IF e3 # NoError THEN [metric |-> m3, err |-> e3]
       ELSE [metric |-> m4, err |-> NoError]
\* The body of Data.Transform's loop for one metric (lines 243-282), run with the
\* transformer as it stands after line 240.
DataMetric(d, metric) ==
    LET m1 == [metric EXCEPT !.Data = ApplySet(metric.Data, d.Set)]
        m2 == ApplyFlatten(m1, d.Flatten, d.FlattenSeparator, d.KeepOriginal, TRUE, 1)
        e2 == RequireError(m2.Data, d.Require, "data")
        m3 == [m2 EXCEPT !.Data = ApplyRemove(m2.Data, d.Remove, 1)]
        e3 == BanError(m3.Data, d.Ban, "data")
        m4 == [m3 EXCEPT !.Data = ApplyRename(m3.Data, d.Rename, 1)]
    IN IF e2 # NoError THEN [metric |-> m2, err |-> e2]
       ELSE IF e3 # NoError THEN [metric |-> m3, err |-> e3]
       ELSE [metric |-> m4, err |-> NoError]

\* for mi := range c.Metrics of Data.Transform (lines 242-284)
RECURSIVE DataLoop(_, _, _)
DataLoop(d, cont, mi) ==
    IF mi > Len(cont) THEN [c |-> cont, err |-> NoError]
    ELSE LET r == DataMetric(d, cont[mi])
             c2 == [cont EXCEPT ![mi] = r.metric]
         IN IF r.err # NoError THEN [c |-> c2, err |-> r.err]
            ELSE DataLoop(d, c2, mi + 1)

(***************************************************************************)
(* Nats.Send                                                               *)
(***************************************************************************)
\* encoder.JSON's EncodeMetric: the metric's fields between two delimiters
EncodeMetric(m) ==
    <<[t |-> "{", v |-> 0], Num(m.Time), m.Metadata, m.Data, [t |-> "}", v |-> 0]>>
EncodedLen == 5

\* AppendBytes putting the new bytes first
AppendBytesFront(nm, b) == b \o nm
\* nm = append(nm, b...)
AppendBytes(nm, b) == nm \o b

\* for _, m := range c.Metrics (lines 128-134); bad is the index of the metric the
\* encoder rejects, 0 when it rejects none
RECURSIVE EncodeLoop(_, _, _, _)
EncodeLoop(nm, cont, bad, i) ==
    IF i > Len(cont) THEN [nm |-> nm, err |-> NoError]
    ELSE IF i = bad THEN [nm |-> nm, err |-> "couldn't encode metric"]
    ELSE EncodeLoop(AppendBytes(nm, EncodeMetric(cont[i])), cont, bad, i + 1)

\* n.once.Do(n.init): the defaults of lines 57-68 and the connection of line 118
NatsInit(n, connected) ==
    IF n.once THEN n
    ELSE [n EXCEPT !.once = TRUE,
                   !.Encoder = IF n.Encoder = "" THEN "json" ELSE n.Encoder,
                   !.Name = IF n.Name = "" THEN "skogul" ELSE n.Name,
                   !.Servers = IF n.Servers = "" THEN "nats://127.0.0.1:4222" ELSE n.Servers,
                   !.nc = IF connected THEN "conn" ELSE "nil"]

(***************************************************************************)
(* Configurations and containers                                           *)
(***************************************************************************)
Keys == {"a", "b"}
Destinations == Keys \cup {""}
SetValues == {Num(7), Null}
Paths == {<<"a">>, <<"a", "b">>, <<"net">>}
Separators == {"", "_", "__", "drop"}

NoRules ==
    [Set |-> EmptyFn, Require |-> <<>>, ExtractFromData |-> <<>>, CopyFromData |-> <<>>,
     Remove |-> <<>>, Ban |-> <<>>, Flatten |-> <<>>, FlattenSeparator |-> "",
     Rename |-> <<>>, KeepOriginal |-> FALSE]

SetRules == {[NoRules EXCEPT !.Set = [x \in {k} |-> val]] : k \in Keys, val \in SetValues}
RequireRules == {[NoRules EXCEPT !.Require = <<k>>] : k \in Keys}
ExtractRules == {[NoRules EXCEPT !.ExtractFromData = <<k>>] : k \in Keys}
\* ExtractFromData lists of two keys, equal or different
ExtractListRules ==
    {[NoRules EXCEPT !.ExtractFromData = <<k1, k2>>] : k1 \in Keys, k2 \in Keys}
CopyRules ==
    {[NoRules EXCEPT !.CopyFromData = <<SourceDestination(s, d, keep)>>] :
        s \in Keys, d \in Destinations, keep \in BOOLEAN}
RemoveRules == {[NoRules EXCEPT !.Remove = <<k>>] : k \in Keys}
BanRules == {[NoRules EXCEPT !.Ban = <<k>>] : k \in Keys}
RenameRules ==
    {[NoRules EXCEPT !.Rename = <<SourceDestination(s, d, keep)>>] :
        s \in Keys, d \in Destinations, keep \in BOOLEAN}
FlattenRules ==
    {[NoRules EXCEPT !.Flatten = <<path>>, !.FlattenSeparator = sep, !.KeepOriginal = ko] :
        path \in Paths, sep \in Separators, ko \in BOOLEAN}

SingleRules == SetRules \cup RequireRules \cup ExtractRules \cup CopyRules
                 \cup RemoveRules \cup BanRules \cup RenameRules

\* Two configurations in one: the rule lists concatenated
Merge(x, y) ==
    [Set |-> [k \in DOMAIN x.Set \cup DOMAIN y.Set |->
                 IF k \in DOMAIN y.Set THEN y.Set[k] ELSE x.Set[k]],
     Require |-> x.Require \o y.Require,
     ExtractFromData |-> x.ExtractFromData \o y.ExtractFromData,
     CopyFromData |-> x.CopyFromData \o y.CopyFromData,
     Remove |-> x.Remove \o y.Remove,
     Ban |-> x.Ban \o y.Ban,
     Flatten |-> x.Flatten \o y.Flatten,
     FlattenSeparator |-> IF y.Flatten # <<>> THEN y.FlattenSeparator ELSE x.FlattenSeparator,
     Rename |-> x.Rename \o y.Rename,
     KeepOriginal |-> x.KeepOriginal \/ y.KeepOriginal]

\* A Require or a Ban rule together with one rule of any group
PairRules == {Merge(x, y) : x \in RequireRules \cup BanRules, y \in SingleRules}

\* One Flatten path together with a Require of a key the flatten can produce
FlattenRequireRules ==
    {[NoRules EXCEPT !.Flatten = << <<"a">> >>, !.FlattenSeparator = sep, !.Require = <<k>>] :
        sep \in {"", "_", "drop"}, k \in {"a_b", "a__b", "b"}}

\* The Data transformer carrying the rules of a configuration
DataOf(r) ==
    [Set |-> r.Set, Require |-> r.Require, Flatten |-> r.Flatten,
     FlattenSeparator |-> r.FlattenSeparator, Remove |-> r.Remove, Ban |-> r.Ban,
     Rename |-> r.Rename, KeepOriginal |-> r.KeepOriginal]

Metric(time, md, d) == [Time |-> time, Metadata |-> md, Data |-> d]

\* Metadata and Data of metrics without nesting
FlatShapes ==
    << <<NilMap, Map1("a", Num(1))>>,
       <<Map1("a", Num(1)), Map1("b", Null)>>,
       <<Map2("a", Null, "b", Num(2)), Map2("a", Num(3), "b", Num(4))>>,
       <<Map2("a", Num(1), "b", Num(2)), NilMap>>,
       <<MakeMap, MakeMap>> >>

\* Maps with nested maps and arrays
NestedMaps ==
    << Map1("a", Map2("b", Num(1), "c", Num(2))),
       Map1("a", Arr(<<Map1("x", Num(1)), Map1("y", Num(2))>>)),
       Map2("a", Map1("b", Map1("c", Num(1))), "z", Num(5)),
       Map1("net", Map2("rx", Num(10), "tx", Num(20))),
       Map2("a", Map2("", Num(1), "b", Null), "b", Num(2)),
       Map2("a", Arr(<<Num(1), Map1("x", Num(1))>>), "0", Num(9)),
       Map2("a", MakeMap, "b", Num(1)),
       Map1("a", Arr(<<>>)),
       Map2("a", Num(1), "net", Null),
       NilMap >>
NestedShapes == [i \in DOMAIN NestedMaps |-> <<NestedMaps[i], NestedMaps[i]>>]

\* The container of n metrics whose shapes are shapes[i], shapes[i+1], ...; the
\* metrics carry distinct timestamps
Container(shapes, i, n) ==
    [j \in 1..n |->
        LET sh == shapes[((i + j - 2) % Len(shapes)) + 1]
        IN Metric(j, sh[1], sh[2])]
Containers(shapes) == {Container(shapes, i, n) : i \in DOMAIN shapes, n \in 1..MaxMetrics}

\* The handler's transformer chain: n transformers, all the same or alternating
Chain(first, alternate, n) ==
    [i \in 1..n |->
        IF alternate /\ i % 2 = 0
        THEN (IF first = "Metadata" THEN "Data" ELSE "Metadata")
        ELSE first]
Chains ==
    {Chain(first, alternate, n) :
        first \in {"Metadata", "Data"}, alternate \in BOOLEAN, n \in 1..MaxCalls}

(***************************************************************************)
(* The state machine                                                       *)
(***************************************************************************)
NoContainer == <<>>

InitWith(r, chain, conts) ==
    /\ meta = r
    /\ data = DataOf(r)
    /\ nats = [once |-> FALSE, Encoder |-> "", Name |-> "", Servers |-> "", nc |-> "nil"]
    /\ conf = [meta |-> r, data |-> DataOf(r), Transformers |-> chain]
    /\ c = conts
    /\ pc = [p \in Procs |-> IF conts[p] = NoContainer THEN "off" ELSE "idle"]
    /\ pre = conts
    /\ ret = [p \in Procs |-> NoError]
    /\ ops = [p \in Procs |-> 0]
    /\ published = [p \in Procs |-> <<>>]

\* One handler invocation at a time
InitSequential ==
    \E chain \in Chains :
        \/ \E r \in SingleRules \cup PairRules \cup ExtractListRules, cont \in Containers(FlatShapes) :
              InitWith(r, chain, [p \in Procs |-> IF p = 1 THEN cont ELSE NoContainer])
        \/ \E r \in FlattenRules \cup FlattenRequireRules, cont \in Containers(NestedShapes) :
              InitWith(r, chain, [p \in Procs |-> IF p = 1 THEN cont ELSE NoContainer])

\* The handler re-entered by every receiver task at once
InitConcurrent ==
    \E r \in {x \in FlattenRules : x.Flatten = << <<"a">> >> /\ ~x.KeepOriginal
                                     /\ x.FlattenSeparator \in {"", "_"}},
       first \in {"Metadata", "Data"} :
        InitWith(r, Chain(first, FALSE, 1),
                 [p \in Procs |-> Container(NestedShapes, 1, 1)])

\* The handler on its own: main is not part of the run
NoMain ==
    /\ receivers = <<>>
    /\ rcv = <<>>
    /\ main = [pc |-> "off", i |-> 0, ii |-> 0]
    /\ foo = <<>>
    /\ gor = <<>>
    /\ exit = "running"

Init == (InitSequential \/ InitConcurrent) /\ NoMain

\* The transformer the handler runs next for p
NextTransformer(p) ==
    IF ops[p] < Len(conf.Transformers) THEN conf.Transformers[ops[p] + 1] ELSE "none"

Returned(p, err) ==
    /\ ret' = [ret EXCEPT ![p] = err]
    /\ ops' = [ops EXCEPT ![p] = @ + 1]
    /\ pc' = [pc EXCEPT ![p] = IF err # NoError THEN "aborted" ELSE "idle"]

\* Metadata.Transform(c), which shares nothing it writes with other calls
Metadata_Transform(p) ==
    /\ pc[p] = "idle"
    /\ NextTransformer(p) = "Metadata"
    /\ LET r == MetadataTransform(meta, c[p])
       IN /\ meta' = r.meta
          /\ c' = [c EXCEPT ![p] = r.c]
          /\ Returned(p, r.err)
    /\ pre' = [pre EXCEPT ![p] = c[p]]
    /\ UNCHANGED <<data, nats, conf, published, mainVars>>

\* Data.Transform(c), line 238: the test of data.FlattenSeparator
Data_TransformTest(p) ==
    /\ pc[p] = "idle"
    /\ NextTransformer(p) = "Data"
    /\ pc' = [pc EXCEPT ![p] = IF data.FlattenSeparator = "" THEN "line239" ELSE "line242"]
    /\ pre' = [pre EXCEPT ![p] = c[p]]
    /\ UNCHANGED <<meta, data, nats, conf, c, ret, ops, published, mainVars>>

\* Data.Transform(c), line 239: the write of data.FlattenSeparator
Data_TransformDefault(p) ==
    /\ pc[p] = "line239"
    /\ data' = [data EXCEPT !.FlattenSeparator = "__"]
    /\ pc' = [pc EXCEPT ![p] = "line242"]
    /\ UNCHANGED <<meta, nats, conf, c, pre, ret, ops, published, mainVars>>

\* Data.Transform(c), lines 242-284: the loop over the metrics and the return
Data_TransformLoop(p) ==
    /\ pc[p] = "line242"
    /\ LET r == DataLoop(data, c[p], 1)
       IN /\ c' = [c EXCEPT ![p] = r.c]
          /\ Returned(p, r.err)
    /\ UNCHANGED <<meta, data, nats, conf, pre, published, mainVars>>

\* Nats.Send(c), called once the chain is done; connected: whether nats.Connect
\* succeeds; bad: the metric the encoder rejects, if any; lastErr: nc.LastError()
Nats_Send(p, connected, bad, lastErr) ==
    /\ pc[p] = "idle"
    /\ NextTransformer(p) = "none"
    /\ LET n == NatsInit(nats, connected)
           e == EncodeLoop(<<>>, c[p], bad, 1)
       IN /\ nats' = n
          /\ IF e.err # NoError
             THEN /\ ret' = [ret EXCEPT ![p] = e.err]
                  /\ UNCHANGED published
             ELSE IF n.nc = "nil"
             THEN /\ ret' = [ret EXCEPT ![p] = "nats: invalid connection"]
                  /\ UNCHANGED published
             ELSE /\ ret' = [ret EXCEPT ![p] = IF lastErr THEN "nats: error" ELSE NoError]
                  /\ published' = [published EXCEPT ![p] = e.nm]
    /\ pc' = [pc EXCEPT ![p] = "sent"]
    /\ pre' = [pre EXCEPT ![p] = c[p]]
    /\ UNCHANGED <<meta, data, conf, c, ops, mainVars>>

Next ==
    \E p \in Procs :
        \/ Metadata_Transform(p)
        \/ Data_TransformTest(p)
        \/ Data_TransformDefault(p)
        \/ Data_TransformLoop(p)
        \/ \E connected \in BOOLEAN, bad \in 0..Len(c[p]), lastErr \in BOOLEAN :
              Nats_Send(p, connected, bad, lastErr)

Spec == Init /\ [][Next]_vars

(***************************************************************************)
(* main and the goroutines it starts                                       *)
(***************************************************************************)
\* The indices of the receivers, and of the goroutines main starts for them
ReceiverIds == 1..MaxReceivers

\* The zero value of chan int, which is what make([]chan int, n) fills foo with
NilChan == "nil"

\* A configured receiver: its implementation, whether WholeFile's Frequency is at
\* least a nanosecond, and LineFileAdvanced's Post command
Receiver(kind, sleep, Post) == [kind |-> kind, sleep |-> sleep, Post |-> Post]
ReceiverConfigs ==
    {Receiver(kind, FALSE, "") : kind \in {"File", "Stdin", "LineFile"}}
        \cup {Receiver("WholeFile", sleep, "") : sleep \in BOOLEAN}
        \cup {Receiver("LineFileAdvanced", FALSE, Post) : Post \in {"", "cmd"}}

\* A file as one read finds it: n lines, of which the scanner yields the first
\* good ones before Scan returns false, with an error when err
File(n, good, err) == [exists |-> TRUE, n |-> n, good |-> good, err |-> err]
\* No file of that name: os.Open and os.ReadFile fail
Missing == [exists |-> FALSE, n |-> 0, good |-> 0, err |-> FALSE]
Files ==
    {Missing} \cup {File(n, n, FALSE) : n \in 0..MaxLines}
              \cup {f \in [exists : {TRUE}, n : 1..MaxLines, good : 0..MaxLines, err : {TRUE}] :
                        f.good < f.n}

\* A receiver before its Start is called
NotStarted ==
    [pc |-> "off", file |-> Missing, pos |-> 0, handled |-> <<>>, err |-> NoError,
     Shell |-> "", starts |-> 0]

\* The state when the process starts, with the receivers the configuration names
InitMainWith(rs) ==
    /\ receivers = rs
    /\ rcv = [r \in DOMAIN rs |-> NotStarted]
    /\ main = [pc |-> "start", i |-> 0, ii |-> 0]
    /\ foo = <<>>
    /\ gor = <<>>
    /\ exit = "running"

\* main, lines 629-657: the flags, the configuration, and foo and i
main_Startup(fhelp, fman, configErr, fconf, marshalErr) ==
    /\ exit = "running"
    /\ main.pc = "start"
    /\ IF fhelp \/ fman
       THEN /\ exit' = "0"
            /\ UNCHANGED <<main, foo>>
       ELSE IF configErr
       THEN /\ exit' = "1"
            /\ UNCHANGED <<main, foo>>
       ELSE IF fconf
       THEN /\ exit' = IF marshalErr THEN "2" ELSE "0"
            /\ UNCHANGED <<main, foo>>
       ELSE /\ foo' = [k \in 1..Len(receivers) |-> NilChan]
            /\ main' = [main EXCEPT !.pc = "range", !.i = 0]
            /\ UNCHANGED exit
    /\ UNCHANGED <<receivers, rcv, gor, handlerVars>>

\* main, lines 658-664: one iteration of the loop over c.Receivers, which
\* increments i and then starts a goroutine with r and i as its arguments; after
\* the last iteration, ii := 0
main_Range ==
    /\ exit = "running"
    /\ main.pc = "range"
    /\ IF Len(gor) < Len(receivers)
       THEN /\ main' = [main EXCEPT !.i = @ + 1]
            /\ gor' = Append(gor, [pc |-> "go", r |-> Len(gor) + 1, i |-> main.i + 1])
       ELSE /\ main' = [main EXCEPT !.pc = "wait", !.ii = 0]
            /\ UNCHANGED gor
    /\ UNCHANGED <<receivers, rcv, foo, exit, handlerVars>>

\* The goroutine of lines 660-663 calls r.Receiver.Start()
go_Start(g) ==
    /\ exit = "running"
    /\ g \in DOMAIN gor
    /\ gor[g].pc = "go"
    /\ gor' = [gor EXCEPT ![g].pc = "Start"]
    /\ rcv' = [rcv EXCEPT ![gor[g].r].pc = "Start", ![gor[g].r].starts = @ + 1]
    /\ UNCHANGED <<receivers, main, foo, exit, handlerVars>>

\* The goroutine, line 662, once Start has returned: foo[i] <- 1.  An index out of
\* range panics, which ends the process with status 2; a send on a nil channel
\* blocks forever; a send on a channel completes with main's receive from it.
go_Send(g) ==
    /\ exit = "running"
    /\ g \in DOMAIN gor
    /\ gor[g].pc = "Start"
    /\ rcv[gor[g].r].pc = "returned"
    /\ IF gor[g].i >= Len(foo)
       THEN /\ gor' = [gor EXCEPT ![g].pc = "panicked"]
            /\ exit' = "2"
            /\ UNCHANGED main
       ELSE IF foo[gor[g].i + 1] = NilChan
       THEN /\ gor' = [gor EXCEPT ![g].pc = "parked"]
            /\ UNCHANGED <<main, exit>>
       ELSE /\ main.pc = "wait" /\ main.ii = gor[g].i
            /\ gor' = [gor EXCEPT ![g].pc = "done"]
            /\ main' = [main EXCEPT !.ii = @ + 1]
            /\ UNCHANGED exit
    /\ UNCHANGED <<receivers, rcv, foo, handlerVars>>

\* main, lines 665-667: <-foo[ii] for each ii, then the return from main.  A
\* receive from a nil channel blocks forever; a receive from a channel completes
\* with the send of go_Send.
main_Wait ==
    /\ exit = "running"
    /\ main.pc = "wait"
    /\ IF main.ii >= Len(foo)
       THEN /\ exit' = "0"
            /\ UNCHANGED main
       ELSE /\ foo[main.ii + 1] = NilChan
            /\ main' = [main EXCEPT !.pc = "parked"]
            /\ UNCHANGED exit
    /\ UNCHANGED <<receivers, rcv, foo, gor, handlerVars>>

(***************************************************************************)
(* The file receivers                                                      *)
(***************************************************************************)
Kind(r) == receivers[r].kind

\* Where read goes after Handle returned herr: lines 196-198 and 303-305 log the
\* error and scan on.  AfterHandleReturn is the loop returning on an error.
AfterHandleReturn(herr) == IF herr THEN "readret" ELSE "scan"
AfterHandle(herr) == "scan"

\* os.Open at the start of a read: the file as this read finds it
Open(st, f) ==
    IF f = Missing
    THEN [st EXCEPT !.pc = "readret", !.file = Missing, !.pos = 0, !.handled = <<>>,
                    !.err = "unable to open file"]
    ELSE [st EXCEPT !.pc = "scan", !.file = f, !.pos = 0, !.handled = <<>>,
                    !.err = NoError]

\* One iteration of for scanner.Scan(): the next line goes to Handler.H.Handle,
\* which returns an error when herr
ScanLine(st, herr) ==
    [st EXCEPT !.handled = Append(@, [line |-> st.pos + 1, err |-> herr]),
               !.pos = @ + 1,
               !.pc = AfterHandle(herr)]

\* scanner.Scan() has a line to yield
Scans(st) == st.pc = "scan" /\ st.pos < st.file.good

\* File.Start and Stdin.Start, up to the call of s.lf.read()
File_Start(r) ==
    /\ exit = "running"
    /\ r \in DOMAIN rcv
    /\ Kind(r) \in {"File", "Stdin"}
    /\ rcv[r].pc = "Start"
    /\ rcv' = [rcv EXCEPT ![r].pc = "open"]
    /\ UNCHANGED <<receivers, main, foo, gor, exit, handlerVars>>

\* File.Start and Stdin.Start return what read returned
File_Return(r) ==
    /\ exit = "running"
    /\ r \in DOMAIN rcv
    /\ Kind(r) \in {"File", "Stdin"}
    /\ rcv[r].pc = "readret"
    /\ rcv' = [rcv EXCEPT ![r].pc = "returned"]
    /\ UNCHANGED <<receivers, main, foo, gor, exit, handlerVars>>

\* LineFile.Start: the for loop, which logs the error of the read before and
\* reads again
LineFile_Start(r) ==
    /\ exit = "running"
    /\ r \in DOMAIN rcv
    /\ Kind(r) = "LineFile"
    /\ rcv[r].pc \in {"Start", "readret"}
    /\ rcv' = [rcv EXCEPT ![r].pc = "open"]
    /\ UNCHANGED <<receivers, main, foo, gor, exit, handlerVars>>

\* LineFile.read, lines 189-193
LineFile_readOpen(r, f) ==
    /\ exit = "running"
    /\ r \in DOMAIN rcv
    /\ Kind(r) \in {"File", "Stdin", "LineFile"}
    /\ rcv[r].pc = "open"
    /\ rcv' = [rcv EXCEPT ![r] = Open(@, f)]
    /\ UNCHANGED <<receivers, main, foo, gor, exit, handlerVars>>

\* LineFile.read, lines 194-199
LineFile_readScan(r, herr) ==
    /\ exit = "running"
    /\ r \in DOMAIN rcv
    /\ Kind(r) \in {"File", "Stdin", "LineFile"}
    /\ Scans(rcv[r])
    /\ rcv' = [rcv EXCEPT ![r] = ScanLine(@, herr)]
    /\ UNCHANGED <<receivers, main, foo, gor, exit, handlerVars>>

\* LineFile.read, lines 200-203, once Scan returns false
LineFile_readEnd(r) ==
    /\ exit = "running"
    /\ r \in DOMAIN rcv
    /\ Kind(r) \in {"File", "Stdin", "LineFile"}
    /\ rcv[r].pc = "scan" /\ ~Scans(rcv[r])
    /\ rcv' = [rcv EXCEPT ![r].pc = "readret",
                          ![r].err = IF rcv[r].file.err THEN "unable to scan file"
                                     ELSE NoError]
    /\ UNCHANGED <<receivers, main, foo, gor, exit, handlerVars>>

\* LineFileAdvanced.Start: the default of Shell, and the for loop
LineFileAdvanced_Start(r) ==
    /\ exit = "running"
    /\ r \in DOMAIN rcv
    /\ Kind(r) = "LineFileAdvanced"
    /\ rcv[r].pc \in {"Start", "readret"}
    /\ rcv' = [rcv EXCEPT ![r].pc = "open",
                          ![r].Shell = IF rcv[r].pc = "Start" /\ @ = "" THEN "/bin/sh"
                                       ELSE @]
    /\ UNCHANGED <<receivers, main, foo, gor, exit, handlerVars>>

\* LineFileAdvanced.read, lines 294-299: moveFile only logs a failed rename, so f is
\* NewFile as the move, done or not, leaves it
LineFileAdvanced_readOpen(r, f) ==
    /\ exit = "running"
    /\ r \in DOMAIN rcv
    /\ Kind(r) = "LineFileAdvanced"
    /\ rcv[r].pc = "open"
    /\ rcv' = [rcv EXCEPT ![r] = Open(@, f)]
    /\ UNCHANGED <<receivers, main, foo, gor, exit, handlerVars>>

\* LineFileAdvanced.read, lines 300-306
LineFileAdvanced_readScan(r, herr) ==
    /\ exit = "running"
    /\ r \in DOMAIN rcv
    /\ Kind(r) = "LineFileAdvanced"
    /\ Scans(rcv[r])
    /\ rcv' = [rcv EXCEPT ![r] = ScanLine(@, herr)]
    /\ UNCHANGED <<receivers, main, foo, gor, exit, handlerVars>>

\* LineFileAdvanced.read, lines 307-322, once Scan returns false: the scanner's
\* error, then the Post command, which fails when postErr
LineFileAdvanced_readEnd(r, postErr) ==
    /\ exit = "running"
    /\ r \in DOMAIN rcv
    /\ Kind(r) = "LineFileAdvanced"
    /\ rcv[r].pc = "scan" /\ ~Scans(rcv[r])
    /\ rcv' = [rcv EXCEPT ![r].pc = "readret",
                          ![r].err = IF rcv[r].file.err THEN "unable to scan file"
                                     ELSE IF receivers[r].Post # "" /\ postErr
                                     THEN "post command failed"
                                     ELSE NoError]
    /\ UNCHANGED <<receivers, main, foo, gor, exit, handlerVars>>

\* WholeFile.Start, lines 267-269, up to the first read
WholeFile_Start(r) ==
    /\ exit = "running"
    /\ r \in DOMAIN rcv
    /\ Kind(r) = "WholeFile"
    /\ rcv[r].pc = "Start"
    /\ rcv' = [rcv EXCEPT ![r].pc = "read"]
    /\ UNCHANGED <<receivers, main, foo, gor, exit, handlerVars>>

\* WholeFile.read: the whole file goes to Handle as one container
WholeFile_read(r, f, herr) ==
    /\ exit = "running"
    /\ r \in DOMAIN rcv
    /\ Kind(r) = "WholeFile"
    /\ rcv[r].pc = "read"
    /\ rcv' = [rcv EXCEPT ![r] =
                 IF f = Missing
                 THEN [@ EXCEPT !.pc = "readret", !.file = Missing, !.handled = <<>>,
                                !.err = "unable to open file"]
                 ELSE [@ EXCEPT !.pc = "readret", !.file = f,
                                !.handled = <<[line |-> 0, err |-> herr]>>,
                                !.err = IF herr THEN "unable to handle content"
                                        ELSE NoError]]
    /\ UNCHANGED <<receivers, main, foo, gor, exit, handlerVars>>

\* WholeFile.Start, lines 271-280: the error is logged; then the sleep and the
\* next read, or, without a Frequency, the loop that sleeps for ever
WholeFile_Sleep(r) ==
    /\ exit = "running"
    /\ r \in DOMAIN rcv
    /\ Kind(r) = "WholeFile"
    /\ rcv[r].pc = "readret"
    /\ rcv' = [rcv EXCEPT ![r].pc = IF receivers[r].sleep THEN "read" ELSE "forever"]
    /\ UNCHANGED <<receivers, main, foo, gor, exit, handlerVars>>

\* The sequences of at most n elements of S
RECURSIVE SeqsUpTo(_, _)
SeqsUpTo(S, n) ==
    IF n = 0 THEN {<<>>}
    ELSE LET shorter == SeqsUpTo(S, n - 1)
         IN shorter \cup {Append(q, x) : q \in shorter, x \in S}

\* The transformers, given no container, take no part in the run of main
NoHandler ==
    InitWith(NoRules, <<>>, [p \in Procs |-> NoContainer])

InitMain ==
    /\ NoHandler
    /\ \E rs \in SeqsUpTo(ReceiverConfigs, MaxReceivers) : InitMainWith(rs)

NextMain ==
    \/ \E fhelp, fman, configErr, fconf, marshalErr \in BOOLEAN :
          main_Startup(fhelp, fman, configErr, fconf, marshalErr)
    \/ main_Range
    \/ main_Wait
    \/ \E g \in ReceiverIds :
          \/ go_Start(g)
          \/ go_Send(g)
    \/ \E r \in ReceiverIds :
          \/ File_Start(r)
          \/ File_Return(r)
          \/ LineFile_Start(r)
          \/ \E f \in Files : LineFile_readOpen(r, f)
          \/ \E herr \in BOOLEAN : LineFile_readScan(r, herr)
          \/ LineFile_readEnd(r)
          \/ LineFileAdvanced_Start(r)
          \/ \E f \in Files : LineFileAdvanced_readOpen(r, f)
          \/ \E herr \in BOOLEAN : LineFileAdvanced_readScan(r, herr)
          \/ \E postErr \in BOOLEAN : LineFileAdvanced_readEnd(r, postErr)
          \/ WholeFile_Start(r)
          \/ \E f \in Files, herr \in BOOLEAN : WholeFile_read(r, f, herr)
          \/ WholeFile_Sleep(r)

SpecMain == InitMain /\ [][NextMain]_vars

\* One receiver whose Start has been called, whoever called it
InitReceiver ==
    /\ NoHandler
    /\ \E conf_r \in ReceiverConfigs :
          /\ receivers = <<conf_r>>
          /\ rcv = <<[NotStarted EXCEPT !.pc = "Start", !.starts = 1]>>
    /\ main = [pc |-> "off", i |-> 0, ii |-> 0]
    /\ foo = <<>>
    /\ gor = <<>>
    /\ exit = "running"

NextReceiver ==
    \E r \in ReceiverIds :
        \/ File_Start(r)
        \/ File_Return(r)
        \/ LineFile_Start(r)
        \/ \E f \in Files : LineFile_readOpen(r, f)
        \/ \E herr \in BOOLEAN : LineFile_readScan(r, herr)
        \/ LineFile_readEnd(r)
        \/ LineFileAdvanced_Start(r)
        \/ \E f \in Files : LineFileAdvanced_readOpen(r, f)
        \/ \E herr \in BOOLEAN : LineFileAdvanced_readScan(r, herr)
        \/ \E postErr \in BOOLEAN : LineFileAdvanced_readEnd(r, postErr)
        \/ WholeFile_Start(r)
        \/ \E f \in Files, herr \in BOOLEAN : WholeFile_read(r, f, herr)
        \/ WholeFile_Sleep(r)

SpecReceiver == InitReceiver /\ [][NextReceiver]_vars

(***************************************************************************)
(* Properties                                                              *)
(***************************************************************************)
Range(s) == {s[i] : i \in DOMAIN s}
Transformers == {"Metadata", "Data"}

\* p's last completed operation was a Transform of the named transformer: pre[p]
\* is the container it was given, c[p] the container it left, ret[p] its result
After(p, name) ==
    /\ pc[p] \in {"idle", "aborted"}
    /\ ops[p] >= 1
    /\ conf.Transformers[ops[p]] = name

\* ... and the same transformer had run right before it
AfterTwice(p, name) ==
    /\ After(p, name)
    /\ ops[p] >= 2
    /\ conf.Transformers[ops[p] - 1] = name

TargetOf(metric, name) == IF name = "Data" THEN metric.Data ELSE metric.Metadata

\* The destination a copy rule names, the source standing in for an empty one
EffectiveDestination(rule) == IF rule.Destination = "" THEN rule.Source ELSE rule.Destination

\* No rule after Require writes or deletes key k of the metadata
Untouched(m, k) ==
    /\ k \notin Range(m.Remove)
    /\ k \notin Range(m.ExtractFromData)
    /\ \A rule \in Range(m.CopyFromData) : EffectiveDestination(rule) # k
    /\ \A rule \in Range(m.Rename) : rule.Source # k /\ rule.Destination # k
    /\ m.Flatten = <<>>

\* C1 as stated: whenever Metadata.Transform returns no error, every key of Require
\* is present and non-null in the metadata of every metric, whatever the other rules.
C1_RequireHoldsOnReturn ==
    \A p \in Procs :
        (After(p, "Metadata") /\ ret[p] = NoError) =>
            \A k \in Range(conf.meta.Require) : \A i \in DOMAIN c[p] :
                Get(c[p][i].Metadata, k) # Null

\* C1, amended: whenever Metadata.Transform returns no error, every key k of Require
\* that no later rule writes or deletes (k is not in Remove or ExtractFromData, is no
\* CopyFromData destination, no Rename source or destination, and Flatten is empty)
\* is present and non-null in the metadata of every metric.
C1_RequireHoldsIfUntouched ==
    \A p \in Procs :
        (After(p, "Metadata") /\ ret[p] = NoError) =>
            \A k \in Range(conf.meta.Require) :
                Untouched(conf.meta, k) =>
                    \A i \in DOMAIN c[p] :
                        Has(c[p][i].Metadata, k) /\ Get(c[p][i].Metadata, k) # Null

C1_Witness ==
    \E p \in Procs :
        /\ After(p, "Metadata") /\ ret[p] = NoError
        /\ Len(c[p]) >= 2
        /\ conf.meta.CopyFromData # <<>>
        /\ \E k \in Range(conf.meta.Require) : Untouched(conf.meta, k)
        /\ c[p] # pre[p]

\* C2, for the transformers whose only rule is Ban=[k]: whenever Metadata.Transform
\* returns no error, k is not a key of any metric's metadata, whatever value was
\* stored under it.
C2_BanLeavesKeyAbsent ==
    \A p \in Procs :
        (After(p, "Metadata") /\ ret[p] = NoError /\ conf.meta \in BanRules) =>
            \A k \in Range(conf.meta.Ban) : \A i \in DOMAIN c[p] :
                ~Has(c[p][i].Metadata, k)

\* What C3 says of one metric, for the destination key dest
CopySemantics(before, after, rule, dest) ==
    IF Has(before.Data, rule.Source)
    THEN /\ Has(after.Metadata, dest)
         /\ Get(after.Metadata, dest) = Get(before.Data, rule.Source)
         /\ (~rule.Keep => ~Has(after.Data, rule.Source))
         /\ (rule.Keep => /\ Has(after.Data, rule.Source)
                          /\ Get(after.Data, rule.Source) = Get(before.Data, rule.Source))
    ELSE after = before

\* C3 as stated: with CopyFromData{s, d, keep} as the only rule, a metric with
\* Data[s] = v has Metadata[d] = v afterwards, Data[s] deleted unless keep, and kept
\* equal to v with keep; a metric without Data[s] is unchanged.
C3_CopyToDestination ==
    \A p \in Procs :
        (After(p, "Metadata") /\ conf.meta \in CopyRules) =>
            \A i \in DOMAIN c[p] :
                CopySemantics(pre[p][i], c[p][i], conf.meta.CopyFromData[1],
                              conf.meta.CopyFromData[1].Destination)

\* C3, amended: ... has Metadata[d'] = v afterwards, where d' is d, or s when d is
\* the empty string; the rest as stated.
C3_CopyToEffectiveDestination ==
    \A p \in Procs :
        (After(p, "Metadata") /\ conf.meta \in CopyRules) =>
            /\ ret[p] = NoError
            /\ \A i \in DOMAIN c[p] :
                  CopySemantics(pre[p][i], c[p][i], conf.meta.CopyFromData[1],
                                EffectiveDestination(conf.meta.CopyFromData[1]))

C3_Witness ==
    \E p \in Procs :
        /\ After(p, "Metadata") /\ conf.meta \in CopyRules
        /\ \E i, j \in DOMAIN c[p] :
              /\ Has(pre[p][i].Data, conf.meta.CopyFromData[1].Source)
              /\ c[p][i] # pre[p][i]
              /\ ~Has(pre[p][j].Data, conf.meta.CopyFromData[1].Source)
              /\ pre[p][j].Metadata = NilMap
              /\ c[p][j].Metadata = NilMap

\* C4: a CopyFromData rule with an empty destination leaves the container
\* Metadata.Transform would leave with the source as the destination, returns the
\* same, and the transformer's stored rule is as it was at startup.
C4_EmptyDestinationIsSource ==
    \A p \in Procs :
        (/\ After(p, "Metadata")
         /\ conf.meta \in CopyRules
         /\ conf.meta.CopyFromData[1].Destination = "") =>
            LET named == [conf.meta EXCEPT !.CopyFromData[1].Destination =
                                              conf.meta.CopyFromData[1].Source]
                r == MetadataTransform(named, pre[p])
            IN /\ c[p] = r.c
               /\ ret[p] = r.err
               /\ meta.CopyFromData = conf.meta.CopyFromData

C4_Witness ==
    \E p \in Procs :
        /\ After(p, "Metadata")
        /\ conf.meta \in CopyRules
        /\ conf.meta.CopyFromData[1].Destination = ""
        /\ c[p] # pre[p]

\* A transformer whose only rule is Rename{s, d, keep: false} with d # s
RenamesAway(r) ==
    /\ r \in RenameRules
    /\ ~r.Rename[1].Keep
    /\ r.Rename[1].Destination # r.Rename[1].Source

\* C5: the second of two consecutive Transforms of a transformer (Metadata or Data)
\* whose only rule is Rename{s, d, keep: false}, d # s, leaves the container as the
\* first left it.
C5_RenameTwiceIsOnce ==
    \A p \in Procs : \A name \in Transformers :
        (AfterTwice(p, name) /\ RenamesAway(conf.meta)) =>
            /\ c[p] = pre[p]
            /\ ret[p] = NoError

\* The second Transform has run on a container the first one renamed a key of
C5_Witness ==
    \E p \in Procs : \E name \in Transformers :
        /\ AfterTwice(p, name) /\ RenamesAway(conf.meta)
        /\ \E i \in DOMAIN c[p] :
              /\ Has(TargetOf(c[p][i], name), conf.meta.Rename[1].Destination)
              /\ ~Has(TargetOf(c[p][1], name), conf.meta.Rename[1].Source)
              /\ Get(TargetOf(c[p][i], name), conf.meta.Rename[1].Destination) = Num(1)
              /\ conf.meta.Rename[1].Destination = "b"

(***************************************************************************)
(* Properties of flatten                                                   *)
(***************************************************************************)
\* The value a path leads to in a map; Null when a key on the way is missing or
\* holds no map
RECURSIVE LeafAt(_, _)
LeafAt(value, path) ==
    IF path = <<>> THEN value
    ELSE IF value.t # "map" THEN Null
    ELSE LeafAt(Get(value, Head(path)), Tail(path))

\* p0 sep p1 sep ... pk
RECURSIVE Joined(_, _)
Joined(path, sep) ==
    IF Len(path) = 1 THEN path[1]
    ELSE path[1] \o sep \o Joined(Tail(path), sep)

\* The separator configured for the named transformer, an unset separator of the
\* Data transformer meaning "__"
Configured(name) ==
    IF name = "Data" /\ conf.data.FlattenSeparator = "" THEN "__"
    ELSE conf.meta.FlattenSeparator

\* The prefix P and the separator of section 4.3 step 2: both empty under "drop"
PrefixOf(path, name) == IF Configured(name) = "drop" THEN "" ELSE Joined(path, Configured(name))
SepOf(name) == IF Configured(name) = "drop" THEN "" ELSE Configured(name)

\* p's last operation was a Transform of the named transformer, whose only rule is
\* one Flatten path
Flattened(p, name) == After(p, name) /\ conf.meta \in FlattenRules

Keyset(m) == IF m.t = "map" THEN DOMAIN m.v ELSE {}

\* Every top-level key but P and the keys in written is as it was
OthersUnchanged(before, after, P, written) ==
    \A x \in (Keyset(before) \cup Keyset(after)) \ ({P} \cup written) :
        Has(before, x) /\ Has(after, x) /\ Get(after, x) = Get(before, x)

\* The net/rx/tx example of C6
NetExample(name, before, after) ==
    (/\ name = "Data"
     /\ conf.data.FlattenSeparator = ""
     /\ conf.data.Flatten = << <<"net">> >>
     /\ before = Map1("net", Map2("rx", Num(10), "tx", Num(20)))) =>
        after = Map2("net__rx", Num(10), "net__tx", Num(20))

\* C6 as stated: flattening a path whose leaf is a non-empty mapping, separator not
\* "drop", keepOriginal false, assigns target[P + sep + key] = value for every
\* (key, value) of the leaf and leaves every other top-level key but P unchanged;
\* {net:{rx:10,tx:20}} flattened by the Data transformer with no separator set
\* becomes {net__rx:10, net__tx:20}.
C6_FlattenMapping ==
    \A p \in Procs : \A name \in Transformers :
        (Flattened(p, name) /\ ~conf.meta.KeepOriginal /\ Configured(name) # "drop") =>
            \A i \in DOMAIN c[p] :
                LET before == TargetOf(pre[p][i], name)
                    after == TargetOf(c[p][i], name)
                    path == conf.meta.Flatten[1]
                    leaf == LeafAt(before, path)
                    sep == SepOf(name)
                    P == PrefixOf(path, name)
                IN (leaf.t = "map" /\ DOMAIN leaf.v # {}) =>
                      /\ \A key \in DOMAIN leaf.v :
                            /\ Has(after, P \o sep \o key)
                            /\ Get(after, P \o sep \o key) = leaf.v[key]
                      /\ OthersUnchanged(before, after, P,
                                         {P \o sep \o key : key \in DOMAIN leaf.v})
                      /\ NetExample(name, before, after)

\* C6, amended: ... assigns target[P + sep + key] = value for every (key, value) of
\* the leaf whose key P + sep + key is not P itself (sep and key are not both
\* empty), and leaves every other top-level key but P unchanged; the example as
\* stated.
C6_FlattenMappingButPrefix ==
    \A p \in Procs : \A name \in Transformers :
        (Flattened(p, name) /\ ~conf.meta.KeepOriginal /\ Configured(name) # "drop") =>
            \A i \in DOMAIN c[p] :
                LET before == TargetOf(pre[p][i], name)
                    after == TargetOf(c[p][i], name)
                    path == conf.meta.Flatten[1]
                    leaf == LeafAt(before, path)
                    sep == SepOf(name)
                    P == PrefixOf(path, name)
                IN (leaf.t = "map" /\ DOMAIN leaf.v # {}) =>
                      /\ \A key \in DOMAIN leaf.v :
                            (P \o sep \o key # P) =>
                                /\ Has(after, P \o sep \o key)
                                /\ Get(after, P \o sep \o key) = leaf.v[key]
                      /\ OthersUnchanged(before, after, P,
                                         {P \o sep \o key : key \in DOMAIN leaf.v})
                      /\ NetExample(name, before, after)

\* A mapping two levels down has been flattened into the top level
C6_Witness ==
    \E p \in Procs : \E name \in Transformers :
        /\ Flattened(p, name) /\ ~conf.meta.KeepOriginal /\ Configured(name) = "__"
        /\ conf.meta.Flatten[1] = <<"a", "b">>
        /\ LeafAt(TargetOf(pre[p][1], name), <<"a", "b">>) = Map1("c", Num(1))
        /\ Get(TargetOf(c[p][1], name), "a__b__c") = Num(1)
        /\ Has(TargetOf(c[p][1], name), "z")

\* C7: flattening {a: {b: 1, c: 2}} with path ["a"], separator "drop" and
\* keepOriginal false yields exactly {b: 1, c: 2}.
C7_FlattenDrop ==
    \A p \in Procs : \A name \in Transformers :
        (/\ Flattened(p, name)
         /\ ~conf.meta.KeepOriginal
         /\ Configured(name) = "drop"
         /\ conf.meta.Flatten[1] = <<"a">>) =>
            \A i \in DOMAIN c[p] :
                (TargetOf(pre[p][i], name) = Map1("a", Map2("b", Num(1), "c", Num(2)))) =>
                    TargetOf(c[p][i], name) = Map2("b", Num(1), "c", Num(2))

\* What C8 says of one flattened sequence, the keys prefixed by prefix
SequenceWritten(after, leaf, prefix, sep) ==
    \A n \in DOMAIN leaf.v :
        LET e == leaf.v[n]
            index == ToString(n - 1)
        IN IF e.t = "map"
           THEN \A key \in DOMAIN e.v :
                   /\ Has(after, prefix \o index \o sep \o key)
                   /\ Get(after, prefix \o index \o sep \o key) = e.v[key]
           ELSE /\ Has(after, prefix \o index)
                /\ Get(after, prefix \o index) = e

\* C8 as stated: flattening a leaf that is a sequence writes target[str(i) + sep +
\* key] = value for the keys of an element that is a mapping and target[str(i)] = e
\* for any other element e, with no path prefix; {a: [{x:1},{y:2}]} with path ["a"]
\* and separator "_" yields the keys 0_x and 1_y.
C8_FlattenSequenceNoPrefix ==
    \A p \in Procs : \A name \in Transformers :
        Flattened(p, name) =>
            \A i \in DOMAIN c[p] :
                LET before == TargetOf(pre[p][i], name)
                    after == TargetOf(c[p][i], name)
                    leaf == LeafAt(before, conf.meta.Flatten[1])
                IN leaf.t = "list" =>
                      /\ SequenceWritten(after, leaf, "", SepOf(name))
                      /\ (/\ Configured(name) = "_"
                          /\ before = Map1("a", Arr(<<Map1("x", Num(1)), Map1("y", Num(2))>>)))
                            => (Has(after, "0_x") /\ Has(after, "1_y"))

\* C8, amended: flattening a leaf that is a sequence (of fewer than ten elements)
\* writes target[P + sep + str(i) + sep + key] = value for the keys of an element
\* that is a mapping and target[P + sep + str(i)] = e for any other element e, P
\* and sep both empty under "drop"; {a: [{x:1},{y:2}]} with path ["a"] and
\* separator "_" yields the keys a_0_x and a_1_y.
C8_FlattenSequencePrefixed ==
    \A p \in Procs : \A name \in Transformers :
        Flattened(p, name) =>
            \A i \in DOMAIN c[p] :
                LET before == TargetOf(pre[p][i], name)
                    after == TargetOf(c[p][i], name)
                    path == conf.meta.Flatten[1]
                    leaf == LeafAt(before, path)
                IN leaf.t = "list" =>
                      /\ SequenceWritten(after, leaf, PrefixOf(path, name) \o SepOf(name),
                                         SepOf(name))
                      /\ (/\ Configured(name) = "_"
                          /\ before = Map1("a", Arr(<<Map1("x", Num(1)), Map1("y", Num(2))>>)))
                            => (/\ Has(after, "a_0_x") /\ Has(after, "a_1_y")
                                /\ ~Has(after, "0_x") /\ ~Has(after, "1_y"))

\* The example of C8 has been flattened
C8_Witness ==
    \E p \in Procs : \E name \in Transformers :
        /\ Flattened(p, name) /\ Configured(name) = "_"
        /\ TargetOf(pre[p][1], name) = Map1("a", Arr(<<Map1("x", Num(1)), Map1("y", Num(2))>>))
        /\ Get(TargetOf(c[p][1], name), "a_1_y") = Num(2)

(***************************************************************************)
(* Order of the metrics, and the transformers as shared state              *)
(***************************************************************************)
\* The timestamps of a container's metrics, in order
Times(cont) == [i \in DOMAIN cont |-> cont[i].Time]

\* C9: an operation, whether it succeeds or fails, leaves the container with as
\* many metrics as it had, the metric at each index being the one that was there;
\* and the payload Nats.Send publishes is the metrics' encodings in container order.
C9_OrderPreserved ==
    \A p \in Procs :
        /\ Len(c[p]) = Len(pre[p])
        /\ Times(c[p]) = Times(pre[p])
        /\ (pc[p] = "sent" /\ published[p] # <<>>) =>
              /\ Len(published[p]) = EncodedLen * Len(c[p])
              /\ \A i \in DOMAIN c[p] :
                    SubSeq(published[p], EncodedLen * (i - 1) + 1, EncodedLen * i)
                        = EncodeMetric(c[p][i])

\* Two metrics, the first changed by a transformer, have been published
C9_Witness ==
    \E p \in Procs :
        /\ pc[p] = "sent" /\ published[p] # <<>>
        /\ Len(c[p]) >= 2
        /\ ops[p] >= 1
        /\ c[p][1].Metadata # NilMap /\ c[p][2].Metadata = NilMap

\* Two calls access data.FlattenSeparator at once, one of them writing it
Race ==
    \E p, q \in Procs :
        /\ p # q
        /\ pc[p] = "line239"
        /\ pc[q] \in {"line239", "line242"}

\* C10: no Transform writes a field of its transformer: both instances are as they
\* were configured at startup, and no two calls race on them.
C10_TransformersReadOnly ==
    /\ meta = conf.meta
    /\ data = conf.data
    /\ ~Race

(***************************************************************************)
(* main and the receivers                                                  *)
(***************************************************************************)
\* main has started a goroutine for every receiver and every Start has returned
AllStartsReturned ==
    /\ main.pc \in {"wait", "parked"}
    /\ \A r \in DOMAIN rcv : rcv[r].pc = "returned"

\* C11: main calls Start of every configured receiver exactly once, each on a
\* goroutine of its own, and once every Start has returned no goroutine has
\* panicked, none is blocked for ever on its completion signal, main is not blocked
\* for ever waiting for one, and the process has not ended with a status other than 0.
C11_MainWaitsAndReturns ==
    AllStartsReturned =>
        /\ Len(gor) = Len(receivers)
        /\ \A r \in DOMAIN rcv : rcv[r].starts = 1
        /\ \A g \in DOMAIN gor : gor[g].pc \notin {"panicked", "parked"}
        /\ main.pc # "parked"
        /\ exit \in {"running", "0"}

\* The receivers that hand a file to the handler line by line
LineKinds == {"File", "Stdin", "LineFile", "LineFileAdvanced"}

\* The last read of receiver r opened its file and has returned
ReadReturned(r) == rcv[r].pc \in {"readret", "returned"} /\ rcv[r].file # Missing

\* C12: the lines a read has passed to Handle are the first lines of the file, each
\* once and in file order, whatever Handle returned for them; once the read has
\* returned they are all the lines the scanner yielded (all the lines of the file
\* unless the scanner itself failed), and the read returns an error only for a
\* failure of the scanner or of the Post command, never for an error of Handle;
\* and WholeFile.Start never returns.
C12_HandlerErrorDoesNotStop ==
    \A r \in DOMAIN rcv :
        /\ Kind(r) \in LineKinds =>
              /\ Len(rcv[r].handled) = rcv[r].pos
              /\ \A k \in DOMAIN rcv[r].handled : rcv[r].handled[k].line = k
              /\ ReadReturned(r) =>
                    /\ rcv[r].pos = rcv[r].file.good
                    /\ ~rcv[r].file.err => rcv[r].pos = rcv[r].file.n
                    /\ rcv[r].err = "unable to scan file" <=> rcv[r].file.err
                    /\ rcv[r].err \in {NoError, "unable to scan file", "post command failed"}
                    /\ rcv[r].err = "post command failed" => receivers[r].Post # ""
        /\ Kind(r) = "WholeFile" => rcv[r].pc # "returned"

\* A read has returned nil after Handle failed for the first of its two lines
C12_Witness ==
    \E r \in DOMAIN rcv :
        /\ Kind(r) = "LineFile"
        /\ rcv[r].pc = "readret"
        /\ rcv[r].err = NoError
        /\ Len(rcv[r].handled) = 2
        /\ rcv[r].handled[1].err /\ ~rcv[r].handled[2].err

(***************************************************************************)
(* Deprecation, the order of the rule groups, and errors                   *)
(***************************************************************************)
\* C13 as stated: Deprecated() returns an error exactly when ExtractFromData is not
\* empty, and a Transform of such a transformer that has modified its container
\* has returned that error.
C13_DeprecationGate ==
    /\ Deprecated(meta) # NoError <=> meta.ExtractFromData # <<>>
    /\ \A p \in Procs :
          (After(p, "Metadata") /\ conf.meta.ExtractFromData # <<>> /\ c[p] # pre[p]) =>
              ret[p] = Deprecated(conf.meta)

\* C13, amended: Deprecated() returns an error exactly when ExtractFromData is not
\* empty; Metadata.Transform never returns that error, and with ExtractFromData=[k]
\* as its only rule it returns nil, having moved Data[k] to Metadata[k] in every
\* metric whose Data has k and left the other metrics as they were.
C13_DeprecatedOnlyReports ==
    /\ Deprecated(meta) # NoError <=> meta.ExtractFromData # <<>>
    /\ \A p \in Procs :
          (After(p, "Metadata") /\ conf.meta.ExtractFromData # <<>>) =>
              /\ ret[p] # Deprecated(conf.meta)
              /\ conf.meta \in ExtractRules =>
                    /\ ret[p] = NoError
                    /\ \A i \in DOMAIN c[p] :
                          CopySemantics(pre[p][i], c[p][i],
                                        SourceDestination(conf.meta.ExtractFromData[1], "", FALSE),
                                        conf.meta.ExtractFromData[1])

\* A transformer with ExtractFromData as its only rule has moved a key and
\* returned nil
C13_Witness ==
    \E p \in Procs :
        /\ After(p, "Metadata") /\ conf.meta \in ExtractRules
        /\ Deprecated(meta) # NoError
        /\ ret[p] = NoError
        /\ \E i \in DOMAIN c[p] :
              /\ Has(pre[p][i].Data, conf.meta.ExtractFromData[1])
              /\ ~Has(c[p][i].Data, conf.meta.ExtractFromData[1])
              /\ Has(c[p][i].Metadata, conf.meta.ExtractFromData[1])

\* The errors of Require and of Ban for key k
IsMissing(err, k) ==
    err \in {"missing required " \o what \o " field " \o k : what \in {"metadata", "data"}}
IsBanned(err, k) ==
    err \in {"banned " \o what \o " field " \o k \o " present" : what \in {"metadata", "data"}}

\* The keys section 4.3 has a flatten of path write for the named transformer, each
\* with its value
ProducedBy(before, path, name) ==
    LET leaf == LeafAt(before, path)
        prefix == PrefixOf(path, name) \o SepOf(name)
    IN IF leaf.t = "map" THEN {<<prefix \o key, leaf.v[key]>> : key \in DOMAIN leaf.v}
       ELSE IF leaf.t = "list"
       THEN UNION {IF leaf.v[n].t = "map"
                   THEN {<<prefix \o ToString(n - 1) \o SepOf(name) \o key, leaf.v[n].v[key]>> :
                            key \in DOMAIN leaf.v[n].v}
                   ELSE {<<prefix \o ToString(n - 1), leaf.v[n]>>} : n \in DOMAIN leaf.v}
       ELSE {}

\* What the fixed order of the rule groups means for the call p has just returned
\* from, r being the rules and k a key; nonNull: a produced key counts only when
\* the flatten leaves it with a value that is not null
OrderOf(p, name, r, k, nonNull) ==
    LET before(i) == TargetOf(pre[p][i], name)
    IN \* Set before Require
       /\ (r.Require = <<k>> /\ k \in DOMAIN r.Set /\ r.Set[k] # Null) => ~IsMissing(ret[p], k)
       \* Require before CopyFromData, Rename and, in Metadata, Flatten
       /\ (/\ r.Require = <<k>> /\ DOMAIN r.Set = {}
           /\ (name = "Metadata" \/ r.Flatten = <<>>)
           /\ Get(before(1), k) = Null) => IsMissing(ret[p], k)
       \* in Data, Flatten before Require
       /\ (/\ name = "Data" /\ r.Require = <<k>> /\ Len(r.Flatten) = 1
           /\ \A i \in DOMAIN c[p] :
                 \E kv \in ProducedBy(before(i), r.Flatten[1], name) :
                    /\ kv[1] = k
                    /\ nonNull => (kv[2] # Null /\ k # PrefixOf(r.Flatten[1], name)))
             => ret[p] = NoError
       \* Remove before Ban
       /\ (r.Remove = <<k>> /\ r.Ban = <<k>>) => ret[p] = NoError
       \* CopyFromData before Ban
       /\ (/\ name = "Metadata" /\ r.Ban = <<k>> /\ Len(r.CopyFromData) = 1
           /\ \E i \in DOMAIN c[p] :
                 /\ EffectiveDestination(r.CopyFromData[1]) = k
                 /\ Get(pre[p][i].Data, r.CopyFromData[1].Source) # Null) => IsBanned(ret[p], k)
       \* Ban before Rename
       /\ (/\ r.Ban = <<k>> /\ Len(r.Rename) = 1
           /\ \A i \in DOMAIN c[p] : Get(before(i), k) = Null) => ret[p] = NoError
       \* metric by metric: nothing after the metric that failed is touched
       /\ ret[p] # NoError =>
             \E i \in DOMAIN c[p] : \A j \in DOMAIN c[p] : j > i => c[p][j] = pre[p][j]

RequiredKeys == Keys \cup {"a_b", "a__b"}

\* C14 as stated: the rule groups run metric by metric in the order Set, Require,
\* ExtractFromData, CopyFromData, Remove, Ban, Rename, Flatten in Metadata.Transform
\* and Set, Flatten, Require, Remove, Ban, Rename in Data.Transform: Set={k:v} with v
\* not null and Require=[k] never fails, and in Data a Require of a key produced by
\* Flatten succeeds.
C14_FixedOrder ==
    \A p \in Procs : \A name \in Transformers :
        After(p, name) =>
            \A k \in RequiredKeys : OrderOf(p, name, conf.meta, k, FALSE)

\* C14, amended: ... and in Data a Require of a key produced by Flatten succeeds
\* when the flatten leaves the key with a value that is not null.
C14_FixedOrderNonNull ==
    \A p \in Procs : \A name \in Transformers :
        After(p, name) =>
            \A k \in RequiredKeys : OrderOf(p, name, conf.meta, k, TRUE)

\* Data.Transform has returned nil for a Require of a key its Flatten produced
C14_Witness ==
    \E p \in Procs :
        /\ After(p, "Data")
        /\ conf.meta.Require = <<"a_b">> /\ conf.meta.Flatten = << <<"a">> >>
        /\ pre[p][1].Data = Map1("a", Map2("b", Num(1), "c", Num(2)))
        /\ Get(c[p][1].Data, "a_b") = Num(1)
        /\ ret[p] = NoError

\* C15: a Transform returns an error exactly when a precondition is violated: with
\* Require=[k] as the only rule, when k is missing or null in some metric's target
\* map; with Ban=[k] as the only rule, when k is a key of some metric's target map;
\* and never when neither Require nor Ban is configured, whatever Set,
\* CopyFromData, Remove, Rename or Flatten rule is.
C15_ErrorIffPrecondition ==
    \A p \in Procs : \A name \in Transformers :
        After(p, name) =>
            /\ conf.meta \in RequireRules =>
                  (ret[p] # NoError <=>
                      \E i \in DOMAIN c[p] :
                          Get(TargetOf(pre[p][i], name), conf.meta.Require[1]) = Null)
            /\ conf.meta \in BanRules =>
                  (ret[p] # NoError <=>
                      \E i \in DOMAIN c[p] :
                          Has(TargetOf(pre[p][i], name), conf.meta.Ban[1]))
            /\ (conf.meta.Require = <<>> /\ conf.meta.Ban = <<>>) => ret[p] = NoError

\* What flattenStructure returns for the one Flatten path of the named
\* transformer on a metric, the Data transformer running with its separator
\* defaulted
FlattenOf(metric, name) ==
    flattenStructure(conf.meta.Flatten[1], Configured(name), conf.meta.KeepOriginal,
                     metric, name = "Data")

\* The path leads to no mapping and to no sequence in the metric's target map
CastFails(metric, name) ==
    LeafAt(TargetOf(metric, name), conf.meta.Flatten[1]).t \notin {"map", "list"}

\* C16 as stated: when the path of a Flatten rule leads to a leaf that is neither a
\* mapping nor a sequence, flattenStructure returns an error and writes and deletes
\* no key of the metric, and the Transform that ran the rule returns that error.
C16_CastFailureReturned ==
    \A p \in Procs : \A name \in Transformers :
        Flattened(p, name) =>
            \A i \in DOMAIN c[p] :
                CastFails(pre[p][i], name) =>
                    /\ FlattenOf(pre[p][i], name).err # NoError
                    /\ FlattenOf(pre[p][i], name).metric = pre[p][i]
                    /\ c[p][i] = pre[p][i]
                    /\ ret[p] # NoError

\* C16, amended: ... flattenStructure returns an error and writes and deletes no
\* key of the metric; the Transform that ran the rule discards that error: it
\* leaves the metric as it was, goes on, and returns nil.
C16_CastFailureDiscarded ==
    \A p \in Procs : \A name \in Transformers :
        Flattened(p, name) =>
            \A i \in DOMAIN c[p] :
                CastFails(pre[p][i], name) =>
                    /\ FlattenOf(pre[p][i], name).err # NoError
                    /\ FlattenOf(pre[p][i], name).metric = pre[p][i]
                    /\ c[p][i] = pre[p][i]
                    /\ ret[p] = NoError

\* A flatten of a path that leads to a number has been run
C16_Witness ==
    \E p \in Procs : \E name \in Transformers :
        /\ Flattened(p, name)
        /\ conf.meta.Flatten[1] = <<"a", "b">>
        /\ LeafAt(TargetOf(pre[p][1], name), <<"a", "b">>) = Num(1)
        /\ FlattenOf(pre[p][1], name).err = "failed to cast to array"
        /\ c[p][1] = pre[p][1]
        /\ ret[p] = NoError

\* C17: after a flatten whose leaf is a mapping or a sequence, empty or not, and
\* whose separator is not "drop": with keepOriginal false, P (the path joined by
\* the separator) is not a key of the target map; with keepOriginal true, the
\* original top-level key still holds the value it held.
C17_OriginalDeletedOrKept ==
    \A p \in Procs : \A name \in Transformers :
        (Flattened(p, name) /\ Configured(name) # "drop") =>
            \A i \in DOMAIN c[p] :
                LET before == TargetOf(pre[p][i], name)
                    after == TargetOf(c[p][i], name)
                    path == conf.meta.Flatten[1]
                IN LeafAt(before, path).t \in {"map", "list"} =>
                      /\ ~conf.meta.KeepOriginal => ~Has(after, PrefixOf(path, name))
                      /\ conf.meta.KeepOriginal =>
                            /\ Has(after, path[1])
                            /\ Get(after, path[1]) = Get(before, path[1])

(***************************************************************************)
(* Rename, and ExtractFromData against CopyFromData                        *)
(***************************************************************************)
\* The container the named transformer leaves, and what it returns, when run with
\* the rules r on the container cont
ResultOf(name, r, cont) ==
    IF name = "Metadata"
    THEN [c |-> MetadataTransform(r, cont).c, err |-> MetadataTransform(r, cont).err]
    ELSE DataLoop([DataOf(r) EXCEPT !.FlattenSeparator = IF @ = "" THEN "__" ELSE @], cont, 1)

\* p's last operation was a Transform of the named transformer, whose only rule is
\* a Rename with an empty destination
RenamedToEmpty(p, name) ==
    /\ After(p, name)
    /\ conf.meta \in RenameRules
    /\ conf.meta.Rename[1].Destination = ""

\* C18 as stated: a transformer with Rename=[{source: s, destination: "", keep}]
\* leaves the container that Rename=[{source: s, destination: s, keep}] leaves.
C18_RenameEmptyIsSource ==
    \A p \in Procs : \A name \in Transformers :
        RenamedToEmpty(p, name) =>
            LET named == [conf.meta EXCEPT !.Rename[1].Destination = conf.meta.Rename[1].Source]
            IN c[p] = ResultOf(name, named, pre[p]).c

\* C18, amended: a Rename rule's empty destination is not defaulted: in every
\* metric whose target map has s, Rename=[{source: s, destination: "", keep}] stores
\* the value of s under the key "", deletes s unless keep, and leaves the other keys;
\* it leaves every other metric as it was; and Transform returns nil.
C18_RenameEmptyIsEmptyKey ==
    \A p \in Procs : \A name \in Transformers :
        RenamedToEmpty(p, name) =>
            /\ ret[p] = NoError
            /\ \A i \in DOMAIN c[p] :
                  LET before == TargetOf(pre[p][i], name)
                      after == TargetOf(c[p][i], name)
                      rule == conf.meta.Rename[1]
                  IN IF Has(before, rule.Source)
                     THEN /\ Has(after, "") /\ Get(after, "") = Get(before, rule.Source)
                          /\ Has(after, rule.Source) <=> rule.Keep
                          /\ Keyset(after) \cup {rule.Source} = Keyset(before) \cup {""}
                          /\ \A x \in Keyset(after) \ {""} : Get(after, x) = Get(before, x)
                     ELSE c[p][i] = pre[p][i]

\* A Rename with an empty destination has moved a value to the key ""
C18_Witness ==
    \E p \in Procs : \E name \in Transformers :
        /\ RenamedToEmpty(p, name)
        /\ ~conf.meta.Rename[1].Keep
        /\ Get(TargetOf(pre[p][1], name), conf.meta.Rename[1].Source) = Num(1)
        /\ Get(TargetOf(c[p][1], name), "") = Num(1)
        /\ ~Has(TargetOf(c[p][1], name), conf.meta.Rename[1].Source)

\* The CopyFromData list that stands for the ExtractFromData list L
ExtractAsCopy(L) == [i \in DOMAIN L |-> SourceDestination(L[i], "", FALSE)]

\* p's last operation was a Metadata.Transform whose only rule is ExtractFromData
Extracted(p) ==
    /\ After(p, "Metadata")
    /\ conf.meta \in ExtractRules \cup ExtractListRules

\* C19: Metadata.Transform with ExtractFromData = L as its only rule leaves the
\* container, and returns what, it would with CopyFromData = [{s, "", keep: false}
\* for s in L] instead: every key of L present in Data is in Metadata under its own
\* name with the value it had and gone from Data, and a metric with no key of L is
\* as it was.
C19_ExtractIsCopy ==
    \A p \in Procs :
        Extracted(p) =>
            LET L == conf.meta.ExtractFromData
                copying == [NoRules EXCEPT !.CopyFromData = ExtractAsCopy(L)]
                r == MetadataTransform(copying, pre[p])
            IN /\ c[p] = r.c
               /\ ret[p] = r.err
               /\ \A i \in DOMAIN c[p] :
                     /\ \A s \in Range(L) :
                           Has(pre[p][i].Data, s) =>
                              /\ Has(c[p][i].Metadata, s)
                              /\ Get(c[p][i].Metadata, s) = Get(pre[p][i].Data, s)
                              /\ ~Has(c[p][i].Data, s)
                     /\ (\A s \in Range(L) : ~Has(pre[p][i].Data, s)) =>
                           c[p][i] = pre[p][i]

\* A list of two different keys has moved both out of Data, into a Metadata that
\* held other values under them, next to a metric that has neither
C19_Witness ==
    \E p \in Procs :
        /\ Extracted(p)
        /\ Len(conf.meta.ExtractFromData) = 2
        /\ conf.meta.ExtractFromData[1] # conf.meta.ExtractFromData[2]
        /\ \E i, j \in DOMAIN c[p] :
              /\ \A s \in Keys : Has(pre[p][i].Data, s) /\ Has(pre[p][i].Metadata, s)
              /\ \A s \in Keys : Get(pre[p][i].Metadata, s) # Get(pre[p][i].Data, s)
              /\ \A s \in Keys : Get(c[p][i].Metadata, s) = Get(pre[p][i].Data, s)
              /\ c[p][i].Data = MakeMap
              /\ \A s \in Keys : ~Has(pre[p][j].Data, s)
              /\ c[p][j] = pre[p][j]

====
